---- MODULE Spec2Model ----
(***************************************************************************)
(* State-machine model of INR_Stock_Analyzer.py: the sidebar widgets, the  *)
(* script run that every interaction triggers (main), the analysis         *)
(* pipeline (StockAnalyzer.get_stock_data / add_indicators) and the        *)
(* presentation step (metrics, chart, export).                             *)
(*                                                                         *)
(* Python values are boxed so that None can be compared with anything:     *)
(* None is a record, a str is Str(s), a missing float is NaN, an exact     *)
(* rational is Rat(n, d).  Sequences are 1-based: row i of the model is    *)
(* pandas row i-1.  Prices are integers in hundredths of a currency unit.  *)
(***************************************************************************)
EXTENDS Integers, Sequences, FiniteSets, TLC

\* ---------------------------------------------------------------- bounds
MaxTickerLen == 1      \* longest ticker text the user types
MaxBars == 51          \* most bars the provider returns
MaxNow == 1            \* latest reading of the wall clock, in seconds

\* ------------------------------------------------------- boxed values
None == [py |-> "None"]
NaN == [py |-> "nan"]
Str(s) == [str |-> s]
Rat(n, d) == [num |-> n, den |-> d]
\* a defined real whose magnitude the model does not compute
Real(band) == [real |-> band]

\* Python truthiness of an optional str (line 135, "if error:")
Truthy(v) == v # None /\ v.str # ""

\* ------------------------------------------------------- Symbol Resolver
Alphabet == {"r"}

\* what the user may type into the text input, the empty text included
Tickers == UNION {[1..n -> Alphabet] : n \in 0..MaxTickerLen}

\* str.upper(), character by character
upper(s) == [i \in 1..Len(s) |-> IF s[i] = "r" THEN "R" ELSE s[i]]

exchange_map ==
    [NSE |-> <<".", "N", "S">>,
     BSE |-> <<".", "B", "O">>,
     NYSE |-> <<>>,
     LSE |-> <<".", "L">>,
     EUR |-> <<".", "D", "E">>,
     JPX |-> <<".", "T">>,
     HKEX |-> <<".", "H", "K">>]

ExchangeOptions == <<"NSE", "BSE", "NYSE", "LSE", "EUR", "JPX", "HKEX">>

TimeframeOptions == <<"1M", "3M", "6M", "1Y">>

Range(s) == {s[i] : i \in 1..Len(s)}

\* resolve_symbol without the upper-casing of the typed text
resolve_symbol_as_typed(text, exch) ==
    IF exch # "NYSE" THEN text \o exchange_map[exch] ELSE text

\* lines 118-120: upper-case the text, append the suffix unless NYSE
resolve_symbol(text, exch) ==
    IF exch # "NYSE" THEN upper(text) \o exchange_map[exch] ELSE upper(text)

\* line 127
days_of(tf) ==
    CASE tf = "1M" -> 30
      [] tf = "3M" -> 90
      [] tf = "6M" -> 180
      [] tf = "1Y" -> 365

\* timedelta(days=1) in clock units (seconds)
DaySeconds == 86400

\* ------------------------------------------------------- provider
Shapes == {"flat", "up", "zigzag"}

FailureDescriptions == {"", "boom"}

\* close of row i of an n-row series, in hundredths
close_at(shape, n, i) ==
    CASE shape = "flat" -> 10000
      [] shape = "up" -> IF i = n THEN 10500 ELSE 10000
      [] OTHER -> 10000 + 700 * (i % 2) - 100 * (i % 3)

\* the bar table the provider returns: n rows, index 1..n
Bars(shape, n) ==
    [Open |-> [i \in 1..n |-> close_at(shape, n, i) - 50 * (i % 2)],
     High |-> [i \in 1..n |-> close_at(shape, n, i) + 100],
     Low |-> [i \in 1..n |-> close_at(shape, n, i) - 100],
     Close |-> [i \in 1..n |-> close_at(shape, n, i)],
     Volume |-> [i \in 1..n |-> 1000 + i]]

Min(a, b) == IF a < b THEN a ELSE b

\* at most one bar per calendar date of [end - days, end]
BarCounts(d) == 0..Min(MaxBars, d + 1)

\* ------------------------------------------------------- ta library calls
RECURSIVE SumRows(_, _, _)
SumRows(s, lo, hi) == IF lo > hi THEN 0 ELSE s[hi] + SumRows(s, lo, hi - 1)

\* sma_indicator with the first defined row one row late
sma_indicator_late(close, window) ==
    [i \in 1..Len(close) |->
        IF i <= window THEN NaN
        ELSE Rat(SumRows(close, i - window + 1, i), window)]

\* ta.trend.sma_indicator(close, window): rolling(window, min_periods=window).mean()
sma_indicator(close, window) ==
    [i \in 1..Len(close) |->
        IF i < window THEN NaN
        ELSE Rat(SumRows(close, i - window + 1, i), window)]

\* default window of ta.momentum.rsi
RsiWindow == 14

\* rsi that needs one more row than the window
rsi_late(close) ==
    [i \in 1..Len(close) |-> IF i <= RsiWindow THEN NaN ELSE Real("mid")]

\* ta.momentum.rsi(close): Wilder averages of the up and down moves with
\* min_periods = window; 100 where the average down move is 0.  The band says
\* where the value lies: "100", "0" or strictly between ("mid").
rsi(close) ==
    LET downs == {j \in 2..Len(close) : close[j] < close[j - 1]}
        ups == {j \in 2..Len(close) : close[j] > close[j - 1]}
    IN  [i \in 1..Len(close) |->
            IF i < RsiWindow THEN NaN
            ELSE IF \A j \in downs : j > i THEN Real("100")
            ELSE IF \A j \in ups : j > i THEN Real("0")
            ELSE Real("mid")]

\* default windows of ta.trend.MACD and ta.volatility.BollingerBands
MacdSlow == 26
MacdSign == 9
BollingerWindow == 20

\* MACD(close).macd(): ema12 - ema26, each with min_periods = its window
macd(close) ==
    [i \in 1..Len(close) |-> IF i < MacdSlow THEN NaN ELSE Real("any")]

\* MACD(close).macd_signal(): ema9 of the macd line, min_periods = 9
macd_signal(close) ==
    [i \in 1..Len(close) |->
        IF i < MacdSlow + MacdSign - 1 THEN NaN ELSE Real("any")]

\* BollingerBands(close).bollinger_hband() / bollinger_lband()
bollinger_band(close) ==
    [i \in 1..Len(close) |-> IF i < BollingerWindow THEN NaN ELSE Real("any")]

\* DataFrame.empty
empty(df) == Len(df.Close) = 0

\* StockAnalyzer.add_indicators
add_indicators(df) ==
    IF df # None /\ ~empty(df)
    THEN [Open |-> df.Open, High |-> df.High, Low |-> df.Low,
          Close |-> df.Close, Volume |-> df.Volume,
          SMA20 |-> sma_indicator(df.Close, 20),
          SMA50 |-> sma_indicator(df.Close, 50),
          RSI |-> rsi(df.Close),
          MACD |-> macd(df.Close),
          MACD_Signal |-> macd_signal(df.Close),
          BB_Upper |-> bollinger_band(df.Close),
          BB_Lower |-> bollinger_band(df.Close)]
    ELSE df

\* ------------------------------------------------------- Analysis Pipeline
\* the empty-series return without its message
no_data_result_silent == [df |-> None, info |-> None, error |-> None]

\* line 53
no_data_result == [df |-> None, info |-> None, error |-> Str("No data found")]

\* an except clause that hands back the series fetched so far
on_exception_partial(df, description) ==
    [df |-> df, info |-> None, error |-> Str("Error: " \o description)]

\* lines 60-61: the except clause of get_stock_data; df is the local df at the
\* point of the raise
on_exception(df, description) ==
    [df |-> None, info |-> None, error |-> Str("Error: " \o description)]

\* line 59
ok_result(df, info) == [df |-> df, info |-> info, error |-> None]

\* a range whose end comes from a second, later reading of the clock
date_range_two_reads(t, d) == [start |-> t - d * DaySeconds, end |-> t + 1]

\* lines 47-48: the range requested when the clock reads t
date_range(t, d) == [start |-> t - d * DaySeconds, end |-> t]

\* get_stock_data without the empty-series check
is_no_data_unchecked(df) == FALSE

\* line 52
is_no_data(df) == empty(df)

\* what a call into the provider or a library does: raise or return
Raise(description) == [kind |-> "raise", description |-> description]
Return(value) == [kind |-> "return", value |-> value]

StepOutcomes == {Return(None)} \cup {Raise(x) : x \in FailureDescriptions}

\* the behaviours of the provider and the libraries during one call of
\* get_stock_data with a window of d days: history raises, or returns rows
\* bars of some shape; then add_indicators and stock.info each raise or return
Behaviours(d) ==
    {[history |-> "raise", description |-> x, shape |-> "flat", rows |-> 0,
      add_indicators |-> Return(None), info |-> Return(None)] :
        x \in FailureDescriptions}
    \cup {[history |-> "return", description |-> "", shape |-> sh, rows |-> n,
           add_indicators |-> Raise(x), info |-> Return(None)] :
            sh \in Shapes, n \in BarCounts(d) \ {0}, x \in FailureDescriptions}
    \cup {[history |-> "return", description |-> "", shape |-> sh, rows |-> n,
           add_indicators |-> Return(None), info |-> f] :
            sh \in Shapes, n \in BarCounts(d), f \in StepOutcomes}

Environment(b) ==
    [history |-> IF b.history = "raise" THEN Raise(b.description)
                 ELSE Return(Bars(b.shape, b.rows)),
     add_indicators |-> b.add_indicators,
     info |-> b.info]

\* StockAnalyzer.get_stock_data(symbol, days) when the clock reads t and the
\* provider behaves as env: the returned triple, the history requests sent,
\* the steps taken in order, and the exception caught (if any)
get_stock_data(sym, d, t, env) ==
    LET range == date_range(t, d)
        request == [symbol |-> sym, start |-> range.start, end |-> range.end]
        history == [call |-> "history",
                    outcome |-> IF env.history.kind = "raise" THEN "raised"
                                ELSE IF empty(env.history.value) THEN "empty"
                                ELSE "returned"]
        indicators == [call |-> "add_indicators",
                       outcome |-> IF env.add_indicators.kind = "raise"
                                   THEN "raised" ELSE "returned"]
        metadata == [call |-> "info",
                     outcome |-> IF env.info.kind = "raise"
                                 THEN "raised" ELSE "returned"]
    IN  IF env.history.kind = "raise"
        THEN [result |-> on_exception(None, env.history.description),
              requests |-> <<request>>,
              steps |-> <<history>>,
              raised |-> Str(env.history.description)]
        ELSE IF is_no_data(env.history.value)
        THEN [result |-> no_data_result,
              requests |-> <<request>>,
              steps |-> <<history>>,
              raised |-> None]
        ELSE IF env.add_indicators.kind = "raise"
        THEN [result |-> on_exception(env.history.value,
                                      env.add_indicators.description),
              requests |-> <<request>>,
              steps |-> <<history, indicators>>,
              raised |-> Str(env.add_indicators.description)]
        ELSE IF env.info.kind = "raise"
        THEN [result |-> on_exception(add_indicators(env.history.value),
                                      env.info.description),
              requests |-> <<request>>,
              steps |-> <<history, indicators, metadata>>,
              raised |-> Str(env.info.description)]
        ELSE [result |-> ok_result(add_indicators(env.history.value),
                                   [symbol |-> sym]),
              requests |-> <<request>>,
              steps |-> <<history, indicators, metadata>>,
              raised |-> None]

\* ------------------------------------------------------- presentation
\* Series.iloc[k] for a negative k: position from the end
in_bounds(s, k) == Len(s) + k + 1 >= 1
iloc(s, k) == s[Len(s) + k + 1]

MaxOf(s) == CHOOSE x \in Range(s) : \A y \in Range(s) : y <= x
MinOf(s) == CHOOSE x \in Range(s) : \A y \in Range(s) : x <= y

Abs(x) == IF x < 0 THEN -x ELSE x

\* n / d rounded to an integer, ties to even (n >= 0, d > 0)
RoundHalfEven(n, d) ==
    LET q == n \div d
        r == n % d
    IN  IF 2 * r < d THEN q
        ELSE IF 2 * r > d THEN q + 1
        ELSE IF q % 2 = 0 THEN q ELSE q + 1

\* the change taken relative to the latest close
percent_change_of_current(current_price, prev_price) ==
    Rat((current_price - prev_price) * 100, current_price)

\* line 142: ((current_price - prev_price) / prev_price) * 100
percent_change(current_price, prev_price) ==
    Rat((current_price - prev_price) * 100, prev_price)

\* f"{change:+.2f}%": the sign and the magnitude in hundredths of a percent
format_change(change) ==
    [sign |-> IF change.num < 0 THEN "-" ELSE "+",
     hundredths |-> RoundHalfEven(Abs(change.num) * 100, change.den)]

\* lines 140-153
metrics_of(df) ==
    LET current_price == iloc(df.Close, -1)
        prev_price == iloc(df.Close, -2)
    IN  [price |-> current_price,
         prev |-> prev_price,
         change |-> percent_change(current_price, prev_price),
         delta |-> format_change(percent_change(current_price, prev_price)),
         volume |-> iloc(df.Volume, -1),
         rsi |-> iloc(df.RSI, -1),
         high |-> MaxOf(df.High),
         low |-> MinOf(df.Low)]

\* lines 81-107
create_chart(df, sym) ==
    [x |-> DOMAIN df.Close,
     traces |-> <<"OHLC", "SMA20", "SMA50", "Volume", "RSI">>,
     colors |-> [i \in DOMAIN df.Close |->
                    IF df.Close[i] < df.Open[i] THEN "red" ELSE "green"],
     hlines |-> <<70, 30>>]

\* DataFrame.to_csv(): a header row and one row per bar, the index first
to_csv(df) ==
    [header |-> <<"Date", "Open", "High", "Low", "Close", "Volume", "SMA20",
                  "SMA50", "RSI", "MACD", "MACD_Signal", "BB_Upper", "BB_Lower">>,
     rows |-> [i \in DOMAIN df.Close |->
                  <<i, df.Open[i], df.High[i], df.Low[i], df.Close[i],
                    df.Volume[i], df.SMA20[i], df.SMA50[i], df.RSI[i],
                    df.MACD[i], df.MACD_Signal[i], df.BB_Upper[i],
                    df.BB_Lower[i]>>]]

\* what one run of the script has put on the page
BlankPage ==
    [error |-> None, metrics |-> None, chart |-> None,
     download_data |-> FALSE, download |-> None]

\* lines 135-165: the page and the exception (if any) that the body of the
\* Analyze branch produces from the pipeline's result; button says which
\* button's click triggered this run
present(res, sym, button) ==
    IF Truthy(res.error)
    THEN [page |-> [BlankPage EXCEPT !.error = res.error], uncaught |-> None]
    ELSE IF res.df # None
    THEN IF ~in_bounds(res.df.Close, -1) \/ ~in_bounds(res.df.Close, -2)
         THEN [page |-> BlankPage, uncaught |-> Str("IndexError")]
         ELSE [page |->
                 [error |-> None,
                  metrics |-> metrics_of(res.df),
                  chart |-> create_chart(res.df, sym),
                  download_data |-> TRUE,
                  download |->
                     IF button = "Download Data"
                     THEN [label |-> "Download CSV",
                           data |-> to_csv(res.df),
                           file_name |-> sym \o <<"_analysis.csv">>,
                           mime |-> "text/csv"]
                     ELSE None],
               uncaught |-> None]
    ELSE [page |-> BlankPage, uncaught |-> None]

\* ------------------------------------------------------- state
VARIABLES
    exchange,        \* sidebar selectbox "Exchange"
    ticker,          \* sidebar text_input "Stock Symbol", as typed
    timeframe,       \* sidebar selectbox "Timeframe"
    clicked,         \* the button whose click triggered the current run
    pc,              \* "running" while a run is due, "idle" once it has ended
    symbol,          \* main's symbol
    days,            \* main's days
    requests,        \* history requests sent to the provider in this run
    steps,           \* the pipeline steps this run took, in order
    result,          \* what get_stock_data returned in this run
    raised,          \* the exception caught inside get_stock_data, if any
    page,            \* what this run rendered
    uncaught         \* the exception that ended this run, if any

vars == <<exchange, ticker, timeframe, clicked, pc, symbol, days, requests,
          steps, result, raised, page, uncaught>>

DefaultTicker == <<"R", "E", "L", "I", "A", "N", "C", "E">>

\* the first run, when the page is opened, is due
Init ==
    /\ exchange = ExchangeOptions[1]
    /\ ticker = DefaultTicker
    /\ timeframe = TimeframeOptions[1]
    /\ clicked = "none"
    /\ pc = "running"
    /\ symbol = <<>>
    /\ days = 0
    /\ requests = <<>>
    /\ steps = <<>>
    /\ result = None
    /\ raised = None
    /\ page = BlankPage
    /\ uncaught = None

\* ------------------------------------------------------- user interactions
\* Every interaction sets the widget's value and makes the framework
\* re-execute the script from the top on a blank page; a button reads True
\* only in the run its own click triggered.
Rerun(exch, text, tf, button) ==
    /\ pc = "idle"
    /\ exchange' = exch
    /\ ticker' = text
    /\ timeframe' = tf
    /\ clicked' = button
    /\ pc' = "running"
    /\ requests' = <<>>
    /\ steps' = <<>>
    /\ result' = None
    /\ raised' = None
    /\ page' = BlankPage
    /\ uncaught' = None
    /\ UNCHANGED <<symbol, days>>

SelectExchange ==
    \E e \in Range(ExchangeOptions) :
        e # exchange /\ Rerun(e, ticker, timeframe, "none")

TypeTicker ==
    \E text \in Tickers :
        text # ticker /\ Rerun(exchange, text, timeframe, "none")

SelectTimeframe ==
    \E tf \in Range(TimeframeOptions) :
        tf # timeframe /\ Rerun(exchange, ticker, tf, "none")

ClickAnalyze ==
    /\ pc = "idle"
    /\ Rerun(exchange, ticker, timeframe, "Analyze")

\* the button can be clicked only while the page shows it
ClickDownloadData ==
    /\ page.download_data
    /\ Rerun(exchange, ticker, timeframe, "Download Data")

\* ------------------------------------------------------- the script
\* lines 109-168: one run of main.  If the run gets to call get_stock_data,
\* the wall clock reads t there and the provider behaves as b.
Main ==
    /\ pc = "running"
    /\ symbol' = resolve_symbol(ticker, exchange)
    /\ days' = days_of(timeframe)
    /\ IF clicked = "Analyze"
       THEN \E t \in 0..MaxNow, b \in Behaviours(days_of(timeframe)) :
               \E got \in {get_stock_data(resolve_symbol(ticker, exchange),
                                           days_of(timeframe), t,
                                           Environment(b))} :
               \E shown \in {present(got.result,
                                     resolve_symbol(ticker, exchange),
                                     clicked)} :
                   /\ requests' = got.requests
                   /\ steps' = got.steps
                   /\ result' = got.result
                   /\ raised' = got.raised
                   /\ page' = shown.page
                   /\ uncaught' = shown.uncaught
       ELSE UNCHANGED <<requests, steps, result, raised, page, uncaught>>
    /\ pc' = "idle"
    /\ UNCHANGED <<exchange, ticker, timeframe, clicked>>

Next ==
    \/ SelectExchange
    \/ TypeTicker
    \/ SelectTimeframe
    \/ ClickAnalyze
    \/ ClickDownloadData
    \/ Main

Spec == Init /\ [][Next]_vars


\* ------------------------------------------------------- claims
\* a run has ended and its page stands
Ended == pc = "idle"

\* the run that ended was triggered by the Analyze button
Analyzed == Ended /\ clicked = "Analyze"

\* the run that ended got a series from get_stock_data without an error
GotSeries == Analyzed /\ result.error = None /\ result.df # None

Rows == Len(result.df.Close)

SuffixOf(e) ==
    CASE e = "NSE" -> <<".", "N", "S">>
      [] e = "BSE" -> <<".", "B", "O">>
      [] e = "NYSE" -> <<>>
      [] e = "LSE" -> <<".", "L">>
      [] e = "EUR" -> <<".", "D", "E">>
      [] e = "JPX" -> <<".", "T">>
      [] e = "HKEX" -> <<".", "H", "K">>

\* C1: for every typed ticker and every selectable exchange, the symbol main
\* builds, and the one the provider is asked for, is the upper-cased ticker
\* followed by the exchange's fixed suffix (nothing for NYSE), and every
\* selectable exchange has an entry in the suffix table.
C1_SymbolResolution ==
    /\ \A i \in 1..Len(ExchangeOptions) : ExchangeOptions[i] \in DOMAIN exchange_map
    /\ Ended =>
          /\ Len(symbol) = Len(ticker) + Len(SuffixOf(exchange))
          /\ \A i \in 1..Len(ticker) :
                symbol[i] = (IF ticker[i] = "r" THEN "R" ELSE ticker[i])
          /\ SubSeq(symbol, Len(ticker) + 1, Len(symbol)) = SuffixOf(exchange)
          /\ exchange = "NYSE" => Len(symbol) = Len(ticker)
          /\ \A i \in 1..Len(requests) : requests[i].symbol = symbol

C1_Witness ==
    /\ Analyzed
    /\ exchange = "HKEX"
    /\ ticker = <<"r">>
    /\ requests = <<[symbol |-> <<"R", ".", "H", "K">>,
                     start |-> requests[1].start, end |-> requests[1].end]>>

\* C2: whenever a call inside get_stock_data raised (history, the indicator
\* step, or the metadata read after the indicators), get_stock_data returned
\* (None, None, "Error: " + description) and no exception ended the run.
C2_ExceptionBecomesError ==
    (Analyzed /\ \E i \in 1..Len(steps) : steps[i].outcome = "raised") =>
        /\ raised # None
        /\ result = [df |-> None, info |-> None,
                     error |-> Str("Error: " \o raised.str)]
        /\ uncaught = None
        /\ page = [BlankPage EXCEPT !.error = Str("Error: " \o raised.str)]

C2_Witness ==
    /\ Analyzed
    /\ Len(steps) = 3
    /\ steps[3] = [call |-> "info", outcome |-> "raised"]
    /\ result.error = Str("Error: boom")
    /\ result.df = None

\* C3: when history returns an empty series, get_stock_data returns
\* (None, None, "No data found") without running the indicator step or reading
\* the metadata, and the page shows the error only: no metrics, no chart, no
\* export control.
C3_NoDataFound ==
    (Analyzed /\ steps[1].outcome = "empty") =>
        /\ steps = <<[call |-> "history", outcome |-> "empty"]>>
        /\ result = [df |-> None, info |-> None, error |-> Str("No data found")]
        /\ page = [error |-> Str("No data found"), metrics |-> None,
                   chart |-> None, download_data |-> FALSE, download |-> None]
        /\ uncaught = None

C3_Witness ==
    /\ Analyzed
    /\ steps[1].outcome = "empty"
    /\ page.error = Str("No data found")

\* C4: the run that a click on "Download Data" triggers renders the download
\* button for {symbol}_analysis.csv.
C4_DownloadOffered ==
    (Ended /\ clicked = "Download Data") =>
        /\ page.download # None
        /\ page.download.file_name = symbol \o <<"_analysis.csv">>

\* C5 as stated: whenever the RSI metric is displayed, the value it reads at
\* the last row is defined.
C5_RsiMetricDefined ==
    (Ended /\ page.metrics # None) => page.metrics.rsi # NaN

\* C5 as amended: the RSI metric reads the RSI of the last row, and that value
\* is defined exactly when the series has at least 14 rows.
C5_RsiMetricDefinedFrom14Rows ==
    (Ended /\ page.metrics # None) =>
        /\ page.metrics.rsi = result.df.RSI[Rows]
        /\ page.metrics.rsi # NaN <=> Rows >= 14

C5_Witness ==
    /\ Ended
    /\ page.metrics # None
    /\ Rows = 14
    /\ page.metrics.rsi = Real("mid")

DaysOf(tf) ==
    CASE tf = "1M" -> 30 [] tf = "3M" -> 90 [] tf = "6M" -> 180 [] tf = "1Y" -> 365

\* C6: the day count of the selected timeframe is 30, 90, 180 or 365 for 1M,
\* 3M, 6M, 1Y, and the one range asked of the provider ends at the clock
\* reading and starts exactly that many days (of 86400 s) before it.
C6_TimeWindow ==
    Ended =>
        /\ days = DaysOf(timeframe)
        /\ \A i \in 1..Len(requests) :
              /\ requests[i].end \in 0..MaxNow
              /\ requests[i].end - requests[i].start = DaysOf(timeframe) * 86400

C6_Witness ==
    /\ Analyzed
    /\ timeframe = "1Y"
    /\ days = 365
    /\ requests[1].end = 1
    /\ requests[1].start = 1 - 31536000

\* C7: the change shown with the price is (latest - previous) / previous * 100
\* over the last and second-to-last closes, its displayed value is that number
\* rounded to two decimals, its sign is negative exactly when the latest close
\* is below the previous one, and 100.00 -> 105.00 shows +5.00.
C7_PercentChange ==
    (Ended /\ page.metrics # None) =>
        LET latest == result.df.Close[Rows]
            previous == result.df.Close[Rows - 1]
            m == page.metrics
        IN  /\ previous > 0
            /\ m.price = latest
            /\ m.change.den > 0
            /\ m.change.num * previous = (latest - previous) * 100 * m.change.den
            /\ m.delta.sign = "-" <=> latest < previous
            /\ 2 * Abs(m.delta.hundredths * previous
                       - Abs(latest - previous) * 10000) <= previous
            /\ (previous = 10000 /\ latest = 10500) =>
                  m.delta = [sign |-> "+", hundredths |-> 500]

C7_Witness ==
    /\ Ended
    /\ page.metrics # None
    /\ result.df.Close[Rows - 1] = 10000
    /\ result.df.Close[Rows] = 10500
    /\ page.metrics.delta = [sign |-> "+", hundredths |-> 500]

\* C8: for a series of at least 50 bars, SMA20 is defined exactly from row 20
\* (index 19) and SMA50 exactly from row 50 (index 49), each defined entry is
\* the mean of the last 20 (50) closes ending there, every indicator column
\* has the index of the bar series, and the Open/High/Low/Close/Volume
\* columns are those the provider returned.
C8_MovingAverages ==
    (GotSeries /\ Rows >= 50) =>
        LET df == result.df
        IN  /\ \A i \in 1..Rows :
                  /\ df.SMA20[i] # NaN <=> i >= 20
                  /\ df.SMA50[i] # NaN <=> i >= 50
            /\ \A i \in 20..Rows :
                  df.SMA20[i].num * 20 =
                      df.SMA20[i].den * SumRows(df.Close, i - 19, i)
            /\ \A i \in 50..Rows :
                  df.SMA50[i].num * 50 =
                      df.SMA50[i].den * SumRows(df.Close, i - 49, i)
            /\ \A c \in {df.SMA20, df.SMA50, df.RSI, df.MACD, df.MACD_Signal,
                         df.BB_Upper, df.BB_Lower} : DOMAIN c = DOMAIN df.Close
            /\ \E sh \in Shapes :
                  <<df.Open, df.High, df.Low, df.Close, df.Volume>> =
                      <<Bars(sh, Rows).Open, Bars(sh, Rows).High,
                        Bars(sh, Rows).Low, Bars(sh, Rows).Close,
                        Bars(sh, Rows).Volume>>

C8_Witness ==
    /\ GotSeries
    /\ Rows = 51
    /\ result.df.SMA20[19] = NaN
    /\ result.df.SMA20[20] # NaN
    /\ result.df.SMA50[49] = NaN
    /\ result.df.SMA50[50] # NaN

\* C9: every Analyze run that reaches metric derivation has a series of at
\* least two bars and completes with metrics and chart, with no exception.
C9_MetricsHaveTwoBars ==
    GotSeries =>
        /\ Rows >= 2
        /\ uncaught = None
        /\ page.metrics # None
        /\ page.chart # None

\* C10: every Analyze run asks the provider for the history exactly once; if
\* that call raised or returned an empty series the run ends with an error
\* message and no further step; the indicator step runs only as the second
\* step after a history call that returned a non-empty series.
C10_SingleAttempt ==
    /\ Analyzed =>
          /\ Len(requests) = 1
          /\ Cardinality({i \in 1..Len(steps) : steps[i].call = "history"}) = 1
          /\ steps[1].call = "history"
          /\ steps[1].outcome \in {"raised", "empty"} =>
                /\ Len(steps) = 1
                /\ Truthy(result.error)
                /\ page.error = result.error
                /\ page.metrics = None
          /\ \A i \in 1..Len(steps) :
                steps[i].call = "add_indicators" =>
                    i = 2 /\ steps[1].outcome = "returned"
    /\ (Ended /\ clicked # "Analyze") => requests = <<>> /\ steps = <<>>

C10_Witness ==
    /\ Analyzed
    /\ steps = <<[call |-> "history", outcome |-> "raised"]>>
    /\ Len(requests) = 1
    /\ page.error = Str("Error: ")

====
